---------------------------- MODULE Spec2Model ----------------------------
(***************************************************************************)
(* classroom-board (src/src/App.js): the student progression logic.        *)
(*                                                                         *)
(* The remote document store holds, for the one student modelled, a        *)
(* private profile document and its public mirror.  Every asynchronous     *)
(* function of the client is a small process: one action per segment of    *)
(* code between two awaits, taken when the awaited remote operation        *)
(* completes (or fails).                                                   *)
(*                                                                         *)
(* Skill names are the ASCII renderings of the Korean keys of line 120:    *)
(*   literacy, numeracy, creativity, responsibility, problemSolving,       *)
(*   selfDirected.                                                         *)
(***************************************************************************)
EXTENDS Integers, Sequences, FiniteSets, TLC

\* ------------------------------------------------------------------ bounds

\* updateStudentProfile calls the harness of SpecUpdate may start.
MaxCalls == 2

\* Remote operations that may fail in one behaviour.
MaxFailures == 1

\* Mission documents ever created (their ids are 1 .. MaxMissions, never reused).
MaxMissions == 2

\* processRewards runs in flight at once.
MaxRuns == 2

\* Things the users do in one behaviour: a form submitted, a button pressed, a
\* box ticked, the page loaded again.
MaxUserActions == 4

\* ------------------------------------------------------------- vocabulary

Student == "s1"
Teacher == "t1"
Users == {Student, Teacher}

NoDoc == [exists |-> FALSE]

Skills ==
  {"literacy", "numeracy", "creativity", "responsibility", "problemSolving", "selfDirected"}

\* {} as a map: the function with the empty domain.
EmptyMap == [k \in {} |-> 0]

initialSkills == [k \in Skills |-> 0]

\* obj[key] || 0
OrZero(obj, key) == IF key \in DOMAIN obj THEN obj[key] ELSE 0

\* The display name of the student modelled (the first key of studentAccounts).
StudentName == "KimDaesu"

\* A profile document as login and handleAddStudent create it; userId is the uid
\* of the anonymous user of the student's browser.
Profile(role, xp, gold, level, skills) ==
  [exists |-> TRUE, userId |-> Student, role |-> role, displayName |-> StudentName,
   xp |-> xp, gold |-> gold, level |-> level, skills |-> skills]

\* { ...rec, field: value }
With(rec, field, value) ==
  [f \in DOMAIN rec \cup {field} |-> IF f = field THEN value ELSE rec[f]]

\* serverTimestamp(): the time the server writes in; its value is not modelled.
serverTimestamp == "serverTimestamp"

VARIABLES
  privateProfile,   \* artifacts/<app>/users/<uid>/privateData/profile of the student
  publicProfile,    \* artifacts/<app>/public/data/teacherViewableStudentProfiles/<uid>
  missions,         \* artifacts/<app>/public/data/missions, by document id
  missionsCreated,  \* mission documents created so far
  session,          \* FirebaseProvider: auth.currentUser, userRole, loading, login in flight
  dailyMissions,    \* StudentDashboard: the last mission snapshot delivered
  studentsMissions, \* TeacherDashboard: isCompleted of each mission last delivered
  runs,             \* the processRewards runs of the student's dashboard
  handler,          \* the student's event handler in flight
  growthJournal,    \* artifacts/<app>/users/<uid>/growthJournal, oldest entry first
  growthJournalEntries, \* StudentDashboard: the journal last delivered
  generatedQuestions, \* StudentDashboard: questions on display
  questionResults,  \* StudentDashboard: questions on display that were answered
  quizRewards,      \* per question: rewards granted for an answer to it
  routineDocs,      \* artifacts/<app>/users/<uid>/customRoutines: the student's routine
  customRoutines,   \* StudentDashboard: the routine last delivered
  routineRewards,   \* routine rewards granted for today's date so far
  usp,              \* the updateStudentProfile call of each task
  applied,          \* per mission: private-profile writes made by its settlement
  granted,          \* the sum of the updates of the calls that wrote the private profile
  failures,         \* remote operations that have failed so far
  userActions,      \* things the users have done so far
  callsMade,        \* calls the harness has started
  gemini,           \* the callGeminiAPIWithExponentialBackoff call of the harness
  analysisResults,  \* TeacherDashboard: analysisResults[student.id]
  generatingAnalysisId,  \* TeacherDashboard: the student whose report is being made
  recommending      \* TeacherDashboard: the handleAddRecommendedMissions call

profileVars == <<privateProfile, publicProfile>>
missionVars == <<missions, missionsCreated>>
viewVars == <<dailyMissions, studentsMissions>>
harnessVars == <<callsMade, gemini>>
journalVars ==
  <<growthJournal, growthJournalEntries, generatedQuestions, questionResults, quizRewards>>
routineVars == <<routineDocs, customRoutines, routineRewards>>
teacherVars == <<analysisResults, generatingAnalysisId, recommending>>

vars ==
  <<privateProfile, publicProfile, missions, missionsCreated, session, dailyMissions,
    studentsMissions, runs, handler, growthJournal, growthJournalEntries,
    generatedQuestions, questionResults, quizRewards, routineDocs, customRoutines, routineRewards,
    usp, applied, granted, failures, userActions, callsMade, gemini, analysisResults,
    generatingAnalysisId, recommending>>

\* The task that stands for a direct caller of updateStudentProfile.
Harness == 0
RunIds == 1 .. MaxRuns
\* The task of the student's event handler.
HandlerTask == MaxRuns + 1
Tasks == {Harness} \cup RunIds \cup {HandlerTask}

MissionIds == 1 .. MaxMissions

\* ---------------------------------------------------- the document store

\* setDoc(ref, data, { merge: true }): creates the document, or overwrites the
\* fields given and merges the nested skills map key by key.
setDocMerge(old, data) ==
  IF ~old.exists THEN data
  ELSE [f \in DOMAIN old \cup DOMAIN data |->
          IF f \notin DOMAIN data THEN old[f]
          ELSE IF f = "skills"
            THEN [k \in DOMAIN old.skills \cup DOMAIN data.skills |->
                    IF k \in DOMAIN data.skills THEN data.skills[k] ELSE old.skills[k]]
          ELSE data[f]]

\* ------------------------------------------------- updateStudentProfile

\* A faulty loop: a single threshold test in place of the while.
levelOnce(xp, level) == IF xp >= level * 100 THEN level + 1 ELSE level

\* while (newXP >= newLevel * 100) { newLevel++; }
RECURSIVE levelLoop(_, _)
levelLoop(xp, level) ==
  IF xp >= level * 100 THEN levelLoop(xp, level + 1) ELSE level

newXP(currentData, updates) == currentData.xp + OrZero(updates, "xp")

\* A faulty sum: the reward replaces the balance.
newGoldOverwrites(currentData, updates) == OrZero(updates, "gold")

newGold(currentData, updates) == currentData.gold + OrZero(updates, "gold")

newLevel(currentData, updates) == levelLoop(newXP(currentData, updates), currentData.level)

newSkills(currentData, updates) ==
  LET given == IF "skills" \in DOMAIN updates THEN updates.skills ELSE EmptyMap
  IN  [k \in DOMAIN currentData.skills \cup DOMAIN given |->
         OrZero(currentData.skills, k) + OrZero(given, k)]

\* { ...currentData, xp, gold, level, skills, lastUpdate: serverTimestamp() }
updatedProfile(currentData, updates) ==
  With([currentData EXCEPT !.xp = newXP(currentData, updates),
                           !.gold = newGold(currentData, updates),
                           !.level = newLevel(currentData, updates),
                           !.skills = newSkills(currentData, updates)],
       "lastUpdate", serverTimestamp)

\* The call record of a task that is not inside updateStudentProfile.
\* log lists the remote operations the call has issued, in order; failed names
\* the operation that threw, if one did.
IdleCall ==
  [pc |-> "idle", userIdToUpdate |-> Student, updaterId |-> Student, updates |-> EmptyMap,
   currentData |-> NoDoc, updatedProfile |-> NoDoc, log |-> <<>>, failed |-> "none",
   outcome |-> "none"]

\* const docToReadRef = (userIdToUpdate === updaterId) ? studentDocRef : publicStudentProfileRef
docToReadRef(c) == IF c.userIdToUpdate = c.updaterId THEN "private" ELSE "public"

getDoc(ref) == IF ref = "private" THEN privateProfile ELSE publicProfile

\* The call enters its try block and issues getDoc on the document it reads.
uspEnter(userIdToUpdate, updaterId, updates) ==
  LET c == [IdleCall EXCEPT !.pc = "getDoc", !.userIdToUpdate = userIdToUpdate,
                            !.updaterId = updaterId, !.updates = updates]
  IN  [c EXCEPT !.log = << <<"getDoc", docToReadRef(c)>> >>]

\* A missing handler: the error leaves the function.
uspRethrow(c, op) == [c EXCEPT !.pc = "done", !.failed = op, !.outcome = "raised"]

\* catch (error) { console.error(...) }: the call completes normally.
uspCatch(c, op) == [c EXCEPT !.pc = "done", !.failed = op, !.outcome = "returned"]

\* if (!studentProfileSnap.exists()) { console.error(...); return; }
uspMissing(c) == [c EXCEPT !.pc = "done", !.outcome = "returned"]

\* The source was found: compute the profile and issue the mirror write.
uspFound(c, snap) ==
  [c EXCEPT !.pc = "setPublic", !.currentData = snap,
            !.updatedProfile = updatedProfile(snap, c.updates),
            !.log = Append(c.log, <<"setDoc", "public">>)]

\* A faulty guard: the private copy is written whoever updates.
uspAfterPublicAlways(c) ==
  [c EXCEPT !.pc = "setPrivate", !.log = Append(c.log, <<"setDoc", "private">>)]

\* After the mirror write: if (userIdToUpdate === updaterId) write the private copy.
uspAfterPublic(c) ==
  IF c.userIdToUpdate = c.updaterId
    THEN [c EXCEPT !.pc = "setPrivate", !.log = Append(c.log, <<"setDoc", "private">>)]
    ELSE [c EXCEPT !.pc = "done", !.outcome = "returned"]

uspAfterPrivate(c) == [c EXCEPT !.pc = "done", !.outcome = "returned"]

CanFail == failures < MaxFailures

\* One more thing a user does.
UserActs == userActions < MaxUserActions /\ userActions' = userActions + 1

\* ------------------------------------------------------- processRewards

\* The mission types of missionSchema (line 216), in ASCII: reading, writing,
\* math, problems (problem solving), creative, inquiry.
MissionTypes == {"reading", "writing", "math", "problems", "creative", "inquiry"}

\* A faulty lookup: the else branch has lost its condition.
skillUpdatesNoElseTest(missionType) ==
  IF missionType \in {"reading", "writing"}
    THEN [k \in {"responsibility", "literacy"} |-> IF k = "literacy" THEN 10 ELSE 5]
  ELSE [k \in {"responsibility", "numeracy"} |-> IF k = "numeracy" THEN 10 ELSE 5]

\* let skillUpdates = { responsibility: 5 }; literacy or numeracy +10 by type.
skillUpdates(missionType) ==
  IF missionType \in {"reading", "writing"}
    THEN [k \in {"responsibility", "literacy"} |-> IF k = "literacy" THEN 10 ELSE 5]
  ELSE IF missionType \in {"math", "problems"}
    THEN [k \in {"responsibility", "numeracy"} |-> IF k = "numeracy" THEN 10 ELSE 5]
  ELSE [k \in {"responsibility"} |-> 5]

\* { xp: rewardXp, gold: rewardGold, skills: skillUpdates }
rewardUpdates(mission) ==
  [xp |-> mission.rewardXp, gold |-> mission.rewardGold, skills |-> skillUpdates(mission.type)]

\* A faulty filter: the rewarded flag is not looked at.
qualifiesIfCompleted(m) == m.exists /\ m.isCompleted

\* m => m.isCompleted && !m.isStudentRewarded
qualifies(m) == m.exists /\ m.isCompleted /\ ~m.isStudentRewarded

\* The ids of S in ascending order: the snapshot is sorted by generatedAt.
RECURSIVE inOrder(_)
inOrder(S) ==
  IF S = {} THEN <<>>
  ELSE LET lo == CHOOSE x \in S : \A y \in S : x <= y
       IN  <<lo>> \o inOrder(S \ {lo})

\* dailyMissions.filter(m => m.isCompleted && !m.isStudentRewarded), each mission
\* with the fields line 341 takes from it.
missionsToReward(snapshot) ==
  LET ids == inOrder({m \in MissionIds : qualifies(snapshot[m])})
  IN  [i \in 1 .. Len(ids) |->
         [id |-> ids[i], type |-> snapshot[ids[i]].type,
          rewardXp |-> snapshot[ids[i]].rewardXp, rewardGold |-> snapshot[ids[i]].rewardGold]]

\* plan: the ids of the missions the run set out to reward; todo: the missions
\* left, the head being the one in hand; settled: those it called
\* updateStudentProfile for; marked: those it issued the rewarded-flag write for.
IdleRun == [pc |-> "idle", plan |-> {}, todo |-> <<>>, settled |-> {}, marked |-> {}]

runBusy(run) == run.pc # "idle"

\* The run enters the loop body for the head of todo (lines 341-347).
runEnter(run) ==
  IF run.todo = <<>> THEN IdleRun
  ELSE [run EXCEPT !.pc = "usp", !.settled = @ \cup {Head(run.todo).id}]

\* processRewards starts on a snapshot with something to reward.
runStart(snapshot) ==
  runEnter([IdleRun EXCEPT !.plan = {missionsToReward(snapshot)[i].id :
                                       i \in 1 .. Len(missionsToReward(snapshot))},
                           !.todo = missionsToReward(snapshot)])

\* updateStudentProfile came back: issue updateDoc(missionDocRef, ...) (line 350),
\* or land in the catch of line 351 when it threw.
runAfterUsp(run, c) ==
  IF c.outcome = "raised" THEN [run EXCEPT !.pc = "caught"]
  ELSE [run EXCEPT !.pc = "updateDoc", !.marked = @ \cup {Head(run.todo).id}]

\* The loop goes on to the next mission.
runNext(run) == runEnter([run EXCEPT !.todo = Tail(run.todo)])

\* The call a run makes when it enters the loop body.
runCall(run) ==
  IF run.pc = "usp" THEN uspEnter(Student, Student, rewardUpdates(Head(run.todo)))
  ELSE IdleCall

\* -------------------------------------------------------- FirebaseProvider

\* The provider right after construction: signInAnonymously is in flight.
\* pc follows the provider's own asynchronous work (sign-in, the auth callback's
\* profile read, login's two writes); role is the role login has matched.
FreshSession ==
  [currentUser |-> FALSE, userRole |-> "none", loading |-> TRUE,
   isAuthInitialized |-> FALSE, pc |-> "signIn", role |-> "none", inputID |-> "none",
   inputPassword |-> "none", result |-> "none"]

\* ------------------------------------------- the student's event handlers

IdleHandler ==
  [kind |-> "idle", pc |-> "idle", missions |-> <<>>, old |-> <<>>, aiFeedback |-> "none",
   newDocRef |-> 0, isNowChecked |-> FALSE, wasCompletedToday |-> FALSE,
   completedBefore |-> {}, existedBefore |-> {}, answer |-> <<>>]

\* The handler's updateStudentProfile call came back: handleJournalSubmit goes on
\* to handleGenerateQuestions (line 390); the other handlers are finished.
handlerAfterUsp(h, c) ==
  IF h.kind = "journal" THEN [h EXCEPT !.pc = "questions"] ELSE IdleHandler

\* ------------------------------------ updateStudentProfile, step by step

\* The caller of a finished call goes on.
Continue(t, c) ==
  IF c.pc # "done" THEN UNCHANGED <<runs, handler>>
  ELSE IF t \in RunIds
    THEN /\ runs' = [runs EXCEPT ![t] = runAfterUsp(runs[t], c)]
         /\ UNCHANGED handler
  ELSE IF t = HandlerTask
    THEN /\ handler' = handlerAfterUsp(handler, c)
         /\ UNCHANGED runs
  ELSE UNCHANGED <<runs, handler>>

\* What is kept of call c of task t: a dashboard's call is gone once it has
\* returned to its caller; the harness keeps the finished call to look at.
Kept(t, c) == IF c.pc = "done" /\ t # Harness THEN IdleCall ELSE c

uspFrame == <<missions, missionsCreated, session, dailyMissions, studentsMissions,
              journalVars, routineVars, userActions, harnessVars, teacherVars>>

\* await getDoc(docToReadRef) completes.
uspGetDoc(t) ==
  /\ usp[t].pc = "getDoc"
  /\ \/ LET snap == getDoc(docToReadRef(usp[t]))
            c == IF snap.exists THEN uspFound(usp[t], snap) ELSE uspMissing(usp[t])
        IN  /\ usp' = [usp EXCEPT ![t] = Kept(t, c)]
            /\ Continue(t, c)
            /\ UNCHANGED failures
     \/ /\ CanFail
        /\ usp' = [usp EXCEPT ![t] = Kept(t, uspCatch(usp[t], "getDoc"))]
        /\ Continue(t, uspCatch(usp[t], "getDoc"))
        /\ failures' = failures + 1
  /\ UNCHANGED <<privateProfile, publicProfile, applied, granted, uspFrame>>

\* await setDoc(publicStudentProfileRef, updatedProfile, { merge: true }) completes.
uspSetPublic(t) ==
  /\ usp[t].pc = "setPublic"
  /\ \/ /\ publicProfile' = setDocMerge(publicProfile, usp[t].updatedProfile)
        /\ usp' = [usp EXCEPT ![t] = Kept(t, uspAfterPublic(usp[t]))]
        /\ Continue(t, uspAfterPublic(usp[t]))
        /\ UNCHANGED failures
     \/ /\ CanFail
        /\ usp' = [usp EXCEPT ![t] = Kept(t, uspCatch(usp[t], "setPublic"))]
        /\ Continue(t, uspCatch(usp[t], "setPublic"))
        /\ failures' = failures + 1
        /\ UNCHANGED publicProfile
  /\ UNCHANGED <<privateProfile, applied, granted, uspFrame>>

\* Nothing granted yet.
NoUpdates == [xp |-> 0, gold |-> 0, skills |-> initialSkills]

\* The sum of what was granted and the updates of one more call.
addUpdates(sum, updates) ==
  [xp |-> sum.xp + OrZero(updates, "xp"),
   gold |-> sum.gold + OrZero(updates, "gold"),
   skills |-> [k \in Skills |->
                sum.skills[k] + (IF "skills" \in DOMAIN updates
                                   THEN OrZero(updates.skills, k) ELSE 0)]]

\* await setDoc(studentDocRef, updatedProfile, { merge: true }) completes.  A
\* write made for a mission's settlement is counted in applied, and the
\* updates of the call are added to granted.
uspSetPrivate(t) ==
  /\ usp[t].pc = "setPrivate"
  /\ \/ /\ privateProfile' = setDocMerge(privateProfile, usp[t].updatedProfile)
        /\ usp' = [usp EXCEPT ![t] = Kept(t, uspAfterPrivate(usp[t]))]
        /\ Continue(t, uspAfterPrivate(usp[t]))
        /\ applied' = IF t \in RunIds
                        THEN [applied EXCEPT ![Head(runs[t].todo).id] = @ + 1]
                        ELSE applied
        /\ granted' = addUpdates(granted, usp[t].updates)
        /\ UNCHANGED failures
     \/ /\ CanFail
        /\ usp' = [usp EXCEPT ![t] = Kept(t, uspCatch(usp[t], "setPrivate"))]
        /\ Continue(t, uspCatch(usp[t], "setPrivate"))
        /\ failures' = failures + 1
        /\ UNCHANGED <<privateProfile, applied, granted>>
  /\ UNCHANGED <<publicProfile, uspFrame>>

\* -------------------------------------------------------- the provider

providerFrame == <<missions, missionsCreated, dailyMissions, studentsMissions, runs,
                   handler, journalVars, routineVars, usp, applied, granted, harnessVars, teacherVars>>

\* await signInAnonymously(auth) completes; on success the auth callback of line
\* 83 runs with the user and issues the read of the profile.  The user is a
\* new one, whose profile and mirror do not exist: the documents of a user who
\* signed out are out of this session's reach.
signInAnonymously ==
  /\ session.pc = "signIn"
  /\ \/ /\ session' = [session EXCEPT !.currentUser = TRUE, !.pc = "authGetDoc"]
        /\ privateProfile' = NoDoc
        /\ publicProfile' = NoDoc
        /\ UNCHANGED failures
     \/ /\ CanFail
        /\ session' = [session EXCEPT !.loading = FALSE, !.isAuthInitialized = TRUE,
                                      !.pc = "idle"]
        /\ failures' = failures + 1
        /\ UNCHANGED profileVars
  /\ UNCHANGED <<userActions, providerFrame>>

\* onAuthStateChanged: await getDoc(userProfileRef) completes (lines 86-96).
onAuthStateChanged ==
  /\ session.pc = "authGetDoc"
  /\ \/ /\ session' = [session EXCEPT
                         !.userRole = IF privateProfile.exists THEN privateProfile.role
                                      ELSE "none",
                         !.loading = FALSE, !.isAuthInitialized = TRUE, !.pc = "idle"]
        /\ UNCHANGED failures
     \/ /\ CanFail
        /\ session' = [session EXCEPT !.userRole = "none", !.loading = FALSE,
                                      !.isAuthInitialized = TRUE, !.pc = "idle"]
        /\ failures' = failures + 1
  /\ UNCHANGED <<profileVars, userActions, providerFrame>>

\* The account tables of lines 27-32, one student kept.
studentAccounts == [id \in {"KimDaesu"} |-> "1024"]
teacherAccounts == [id \in {"teacher"} |-> "5555"]

LoginIds == {"KimDaesu", "teacher", "nobody"}
LoginPasswords == {"1024", "5555"}

\* Lines 113-116: the role the tables give the pair, "none" when login throws.
matchRole(inputID, inputPassword) ==
  IF inputID \in DOMAIN studentAccounts /\ studentAccounts[inputID] = inputPassword
    THEN "student"
  ELSE IF inputID \in DOMAIN teacherAccounts /\ teacherAccounts[inputID] = inputPassword
    THEN "teacher"
  ELSE "none"

\* const userProfileData = { userId, role, displayName, xp: 0, gold: 0, level: 1, skills }
userProfileData(role, displayName) ==
  [Profile(role, 0, 0, 1, initialSkills) EXCEPT !.displayName = displayName]

\* { ...userProfileData, lastUpdate: serverTimestamp(), isDeleted: false }
publicProfileData(role, displayName) ==
  With(With(userProfileData(role, displayName), "lastUpdate", serverTimestamp),
       "isDeleted", FALSE)

\* MainAppContent shows LoginScreen.
LoginScreenShown ==
  ~session.loading /\ session.isAuthInitialized /\ session.userRole = "none"

\* MainAppContent shows StudentDashboard.
StudentMounted ==
  ~session.loading /\ session.isAuthInitialized /\ session.userRole = "student"

\* A login without its catch: the error of line 116 leaves login and no
\* result comes back to the form.
loginThrowsUncaught(s) == [s EXCEPT !.loading = FALSE, !.result = "raised"]

\* throw new Error(...) of line 116, caught at line 134: login returns
\* { success: false, error: error.message }, and finally sets loading false.
loginThrows(s) == [s EXCEPT !.loading = FALSE, !.result = "invalid"]

\* LoginScreen.handleSubmit calls login(id, password): lines 110-126 up to the
\* first await.  inputID and inputPassword are what the form holds.
login ==
  /\ LoginScreenShown
  /\ session.pc = "idle"
  /\ UserActs
  /\ \E inputID \in LoginIds, inputPassword \in LoginPasswords :
       session' =
         LET called == [session EXCEPT !.inputID = inputID,
                                       !.inputPassword = inputPassword]
         IN  IF ~session.currentUser THEN [called EXCEPT !.result = "notReady"]
             ELSE IF matchRole(inputID, inputPassword) = "none"
               THEN loginThrows(called)
             ELSE [called EXCEPT !.loading = TRUE, !.pc = "loginSetPrivate",
                                 !.role = matchRole(inputID, inputPassword),
                                 !.result = "none"]
  /\ UNCHANGED <<profileVars, failures, providerFrame>>

loginFails == [session EXCEPT !.loading = FALSE, !.pc = "idle", !.result = "failed"]

loginSucceeds ==
  [session EXCEPT !.loading = FALSE, !.pc = "idle", !.userRole = session.role,
                  !.result = "success"]

\* await setDoc(userProfileRef, userProfileData, { merge: true }) completes.
loginSetPrivate ==
  /\ session.pc = "loginSetPrivate"
  /\ \/ /\ privateProfile' = setDocMerge(privateProfile,
                                             userProfileData(session.role, session.inputID))
        /\ session' = IF session.role = "student"
                        THEN [session EXCEPT !.pc = "loginSetPublic"]
                        ELSE loginSucceeds
        /\ UNCHANGED failures
     \/ /\ CanFail
        /\ session' = loginFails
        /\ failures' = failures + 1
        /\ UNCHANGED privateProfile
  /\ UNCHANGED <<publicProfile, userActions, providerFrame>>

\* await setDoc(publicStudentProfileRef, {...userProfileData, ...}, { merge: true })
\* completes.
loginSetPublic ==
  /\ session.pc = "loginSetPublic"
  /\ \/ /\ publicProfile' = setDocMerge(publicProfile,
                                           publicProfileData(session.role, session.inputID))
        /\ session' = loginSucceeds
        /\ UNCHANGED failures
     \/ /\ CanFail
        /\ session' = loginFails
        /\ failures' = failures + 1
        /\ UNCHANGED publicProfile
  /\ UNCHANGED <<privateProfile, userActions, providerFrame>>

\* The page is loaded again: the provider and the dashboards are constructed
\* anew, what was in flight is dropped, and the persisted anonymous user, if
\* any, is handed to the auth callback.
Reload ==
  /\ UserActs
  /\ session' = [FreshSession EXCEPT
                   !.currentUser = session.currentUser,
                   !.pc = IF session.currentUser THEN "authGetDoc" ELSE "signIn"]
  /\ dailyMissions' = [m \in MissionIds |-> NoDoc]
  /\ runs' = [r \in RunIds |-> IdleRun]
  /\ handler' = IdleHandler
  /\ usp' = [t \in Tasks |-> IdleCall]
  /\ growthJournalEntries' = <<>>
  /\ generatedQuestions' = <<>>
  /\ questionResults' = 0
  /\ customRoutines' = NoDoc
  /\ UNCHANGED <<profileVars, missionVars, studentsMissions, growthJournal, quizRewards,
                 routineDocs, routineRewards,
                 applied, granted, failures, harnessVars, teacherVars>>

\* MainAppContent shows a dashboard and, above it, the logout button.
DashboardShown ==
  ~session.loading /\ session.isAuthInitialized /\ session.userRole # "none"

\* The user presses the logout button: setLoading(true) and signOut(auth) is
\* issued (lines 143-147).  MainAppContent takes the dashboard down, and what
\* the dashboard held goes with it.
logout ==
  /\ DashboardShown
  /\ session.pc = "idle"
  /\ UserActs
  /\ session' = [session EXCEPT !.loading = TRUE, !.pc = "signOut"]
  /\ dailyMissions' = [m \in MissionIds |-> NoDoc]
  /\ growthJournalEntries' = <<>>
  /\ generatedQuestions' = <<>>
  /\ questionResults' = 0
  /\ customRoutines' = NoDoc
  /\ UNCHANGED <<profileVars, missionVars, studentsMissions, runs, handler, usp,
                 growthJournal, quizRewards, routineDocs, routineRewards, applied, granted,
                 failures, harnessVars, teacherVars>>

\* A signOut that leaves the user signed in.
signedOutKeepsUser(s) ==
  [s EXCEPT !.userRole = "none", !.loading = FALSE, !.isAuthInitialized = TRUE,
            !.pc = "idle"]

\* signOut(auth) has succeeded: auth.currentUser is null and the auth callback
\* runs its else branch (lines 98-103).
signedOut(s) ==
  [s EXCEPT !.currentUser = FALSE, !.userRole = "none", !.loading = FALSE,
            !.isAuthInitialized = TRUE, !.pc = "idle"]

\* await signOut(auth) completes, or throws and the catch of line 148 sets
\* loading false.
signOut ==
  /\ session.pc = "signOut"
  /\ \/ /\ session' = signedOut(session)
        /\ UNCHANGED failures
     \/ /\ CanFail
        /\ session' = [session EXCEPT !.loading = FALSE, !.pc = "idle"]
        /\ failures' = failures + 1
  /\ UNCHANGED <<profileVars, userActions, providerFrame>>

\* ------------------------------------------------------------ missions

\* What the generation call may return for one mission (missionSchema, line 216).
MissionKinds ==
  { [type |-> "reading", rewardXp |-> 95, rewardGold |-> 5],
    [type |-> "math", rewardXp |-> 200, rewardGold |-> 10] }

\* The lists of n missions.
MissionLists(n) ==
  UNION {[1 .. len -> MissionKinds] : len \in 1 .. n}

\* { ...m, studentId, generatedAt, isCompleted: false, isPendingApproval: false,
\*   isStudentRewarded: false }
newMission(m) ==
  [exists |-> TRUE, type |-> m.type, rewardXp |-> m.rewardXp, rewardGold |-> m.rewardGold,
   isCompleted |-> FALSE, isPendingApproval |-> FALSE, isStudentRewarded |-> FALSE]

\* updateDoc(ref, fields) rejects when the document does not exist.
CanUpdate(m) == missions[m].exists

studentFrame == <<profileVars, session, studentsMissions, runs, journalVars, routineVars,
                  usp, applied, granted, harnessVars, teacherVars>>

\* The student presses the generate button: lines 402-406 up to the await of
\* the generation call. completedBefore and existedBefore record the student's
\* missions that are completed, and that exist, when the button is pressed;
\* the code does not read them.
handleGenerateDailyMissions ==
  /\ StudentMounted
  /\ handler.kind = "idle"
  /\ missionsCreated < MaxMissions
  /\ UserActs
  /\ handler' = [IdleHandler EXCEPT
                   !.kind = "generate", !.pc = "api",
                   !.completedBefore =
                     {m \in MissionIds : missions[m].exists /\ missions[m].isCompleted},
                   !.existedBefore = {m \in MissionIds : missions[m].exists}]
  /\ UNCHANGED <<missionVars, dailyMissions, failures, studentFrame>>

\* await callGeminiAPIStructured(prompt, missionSchema) completes: it throws, or
\* returns nothing, or returns a list; with a list getDocs is issued.
generateApi ==
  /\ handler.kind = "generate" /\ handler.pc = "api"
  /\ \/ /\ handler' = IdleHandler
        /\ UNCHANGED failures
     \/ /\ CanFail
        /\ handler' = IdleHandler
        /\ failures' = failures + 1
     \/ /\ \E list \in MissionLists(MaxMissions - missionsCreated) :
             handler' = [handler EXCEPT !.pc = "getDocs", !.missions = list]
        /\ UNCHANGED failures
  /\ UNCHANGED <<missionVars, dailyMissions, userActions, studentFrame>>

\* The loops of lines 410 and 411: the next document to delete, then the next
\* mission to add, then the end of the handler.
generateNext(h) ==
  IF h.old # <<>> THEN [h EXCEPT !.pc = "deleteDoc"]
  ELSE IF h.missions # <<>> THEN [h EXCEPT !.pc = "addDoc"]
  ELSE IdleHandler

\* await getDocs(query(collRef, where("studentId", "==", userId))) completes.
generateGetDocs ==
  /\ handler.kind = "generate" /\ handler.pc = "getDocs"
  /\ \/ /\ handler' = generateNext(
                        [handler EXCEPT !.old = inOrder({m \in MissionIds : missions[m].exists})])
        /\ UNCHANGED failures
     \/ /\ CanFail
        /\ handler' = IdleHandler
        /\ failures' = failures + 1
  /\ UNCHANGED <<missionVars, dailyMissions, userActions, studentFrame>>

\* await deleteDoc(doc(collRef, docSnap.id)) completes.
generateDeleteDoc ==
  /\ handler.kind = "generate" /\ handler.pc = "deleteDoc"
  /\ \/ /\ missions' = [missions EXCEPT ![Head(handler.old)] = NoDoc]
        /\ handler' = generateNext([handler EXCEPT !.old = Tail(handler.old)])
        /\ UNCHANGED failures
     \/ /\ CanFail
        /\ handler' = IdleHandler
        /\ failures' = failures + 1
        /\ UNCHANGED missions
  /\ UNCHANGED <<missionsCreated, dailyMissions, userActions, studentFrame>>

\* await addDoc(collRef, {...}) completes.
generateAddDoc ==
  /\ handler.kind = "generate" /\ handler.pc = "addDoc"
  /\ \/ /\ missions' = [missions EXCEPT ![missionsCreated + 1] =
                          newMission(Head(handler.missions))]
        /\ missionsCreated' = missionsCreated + 1
        /\ handler' = generateNext([handler EXCEPT !.missions = Tail(handler.missions)])
        /\ UNCHANGED failures
     \/ /\ CanFail
        /\ handler' = IdleHandler
        /\ failures' = failures + 1
        /\ UNCHANGED missionVars
  /\ UNCHANGED <<dailyMissions, userActions, studentFrame>>

\* The student presses a mission's request button, shown for a mission the
\* dashboard holds as neither completed nor pending: updateDoc(missionDoc,
\* { isPendingApproval: true, ... }) (lines 395-399).
handleStudentRequestMissionCompletion ==
  /\ StudentMounted
  /\ UserActs
  /\ \E m \in MissionIds :
       /\ dailyMissions[m].exists
       /\ ~dailyMissions[m].isCompleted /\ ~dailyMissions[m].isPendingApproval
       /\ \/ /\ CanUpdate(m)
             /\ missions' = [missions EXCEPT ![m].isPendingApproval = TRUE]
             /\ UNCHANGED failures
          \/ /\ CanFail
             /\ failures' = failures + 1
             /\ UNCHANGED missions
  /\ UNCHANGED <<missionsCreated, dailyMissions, handler, studentFrame>>

\* What the teacher's dashboard keeps of a mission for its toggle: m.isCompleted.
teacherView(m) ==
  IF m.exists THEN [exists |-> TRUE, isCompleted |-> m.isCompleted] ELSE NoDoc

\* The teacher's mission listener (line 516) delivers the collection.
teacherSnapshot ==
  /\ studentsMissions # [m \in MissionIds |-> teacherView(missions[m])]
  /\ studentsMissions' = [m \in MissionIds |-> teacherView(missions[m])]
  /\ UNCHANGED <<profileVars, missionVars, session, dailyMissions, runs, handler,
                 journalVars, routineVars, usp, applied, granted, failures, userActions, harnessVars, teacherVars>>

\* The teacher ticks a mission's box: updateDoc(missionDocRef, { isCompleted:
\* !isCompleted, isPendingApproval: false, ... }) with the isCompleted the
\* teacher's dashboard holds (lines 528-541).  Missions are listed for students
\* whose mirror document exists.
handleTeacherMissionToggle ==
  /\ publicProfile.exists
  /\ UserActs
  /\ \E m \in MissionIds :
       /\ studentsMissions[m].exists
       /\ \/ /\ CanUpdate(m)
             /\ missions' = [missions EXCEPT
                               ![m].isCompleted = ~studentsMissions[m].isCompleted,
                               ![m].isPendingApproval = FALSE]
             /\ UNCHANGED failures
          \/ /\ CanFail
             /\ failures' = failures + 1
             /\ UNCHANGED missions
  /\ UNCHANGED <<profileVars, missionsCreated, session, viewVars, runs, handler,
                 journalVars, routineVars, usp, applied, granted, harnessVars, teacherVars>>

\* The lowest run that is not in flight.
freeRun == CHOOSE r \in RunIds : ~runBusy(runs[r]) /\ \A q \in RunIds : q < r => runBusy(runs[q])

\* The student's mission listener (line 325) delivers the collection, and the
\* effect of lines 331-358 starts processRewards on it.
missionSnapshot ==
  /\ StudentMounted
  /\ dailyMissions # missions
  /\ dailyMissions' = missions
  /\ IF missionsToReward(missions) = <<>>
       THEN UNCHANGED <<runs, usp>>
       ELSE /\ \E r \in RunIds : ~runBusy(runs[r])
            /\ runs' = [runs EXCEPT ![freeRun] = runStart(missions)]
            /\ usp' = [usp EXCEPT ![freeRun] = runCall(runStart(missions))]
  /\ UNCHANGED <<profileVars, missionVars, session, studentsMissions, handler,
                 journalVars, routineVars, applied, granted, failures, userActions, harnessVars, teacherVars>>

\* await updateDoc(missionDocRef, { isStudentRewarded: true }) completes, or the
\* catch of line 351 has run; the loop goes on.  The write is rejected when the
\* mission document is gone.
processRewardsUpdateDoc(r) ==
  /\ runs[r].pc \in {"updateDoc", "caught"}
  /\ \/ /\ missions' =
             IF runs[r].pc = "updateDoc" /\ CanUpdate(Head(runs[r].todo).id)
               THEN [missions EXCEPT ![Head(runs[r].todo).id].isStudentRewarded = TRUE]
               ELSE missions
        /\ UNCHANGED failures
     \/ /\ CanFail
        /\ runs[r].pc = "updateDoc"
        /\ failures' = failures + 1
        /\ UNCHANGED missions
  /\ runs' = [runs EXCEPT ![r] = runNext(runs[r])]
  /\ usp' = [usp EXCEPT ![r] = runCall(runNext(runs[r]))]
  /\ UNCHANGED <<profileVars, missionsCreated, session, viewVars, handler, journalVars,
                 routineVars, applied, granted, userActions, harnessVars, teacherVars>>

\* ------------------------------------------------- journal, quiz, routine

handlerFrame == <<profileVars, missionVars, session, viewVars, runs, applied, granted, harnessVars, teacherVars>>

\* The reward of a journal entry (line 389).
journalUpdates == [xp |-> 10, gold |-> 5, skills |-> [k \in {"literacy", "creativity"} |-> 5]]

\* The reward of a correct answer (line 420).
answerUpdates == [skills |-> [k \in {"problemSolving"} |-> 15]]

\* The reward of a routine ticked for today (line 437).
routineUpdates ==
  [skills |-> [k \in {"selfDirected", "responsibility"} |->
                 IF k = "selfDirected" THEN 10 ELSE 5]]

\* The questions the generation prompt asks for (line 363).
questionsAsked == 3

\* A question is known by its id, q-<entry id>-<index> (line 366); a journal
\* entry is made by a user action, so there are at most MaxUserActions entries.
QuestionIds == (1 .. MaxUserActions) \X (1 .. questionsAsked)

\* questions.map((q, i) => ({ ...q, id: `q-${latestJournalEntryId}-${i}` }))
questionsWithIds(entry, n) == [i \in 1 .. n |-> <<entry, i>>]

\* Texts are sequences of characters.  toLowerCase folds the one capital used.
toLowerCase(str) == [i \in 1 .. Len(str) |-> IF str[i] = "A" THEN "a" ELSE str[i]]

RECURSIVE trimStart(_)
trimStart(str) ==
  IF str # <<>> /\ Head(str) = " " THEN trimStart(Tail(str)) ELSE str

RECURSIVE trimEnd(_)
trimEnd(str) ==
  IF str # <<>> /\ str[Len(str)] = " " THEN trimEnd(SubSeq(str, 1, Len(str) - 1)) ELSE str

trim(str) == trimEnd(trimStart(str))

\* What the student may have typed or chosen for a question; the submit button
\* is disabled for an empty answer (line 452).
Answers ==
  {<<"a">>, <<"A">>, <<" ", "a", " ">>, <<"b">>, <<" ">>, <<"a", " ", "b">>}

\* q.correctAnswer of the questions on display.
correctAnswer == <<"A", " ">>

\* answer.trim().toLowerCase() === correct.trim().toLowerCase()
isCorrect(answer, correct) == toLowerCase(trim(answer)) = toLowerCase(trim(correct))

\* { content: entry, timestamp: Date.now(), aiFeedback, questions: [] }: the
\* entries are made one after the other, so the clock reading is the entry's
\* position; the text typed is not told apart.
newEntry(now, aiFeedback) ==
  [content |-> "entry", timestamp |-> now, aiFeedback |-> aiFeedback, questions |-> 0]

\* A faulty write: the document is set anew with the questions alone.
setQuestions(entry, questions) ==
  [content |-> "none", timestamp |-> 0, aiFeedback |-> "none", questions |-> questions]

\* updateDoc(growthJournalDoc, { questions: questionsWithIds }): the other
\* fields of the document stay.
updateQuestions(entry, questions) == [entry EXCEPT !.questions = questions]

\* The student submits a journal entry: lines 376-382 up to the await of
\* callGeminiAPI.  The button is disabled while feedback or questions are made.
handleJournalSubmit ==
  /\ StudentMounted
  /\ handler = IdleHandler
  /\ UserActs
  /\ handler' = [IdleHandler EXCEPT !.kind = "journal", !.pc = "feedback"]
  /\ UNCHANGED <<journalVars, routineVars, usp, failures, handlerFrame>>

\* await callGeminiAPI(prompt) completes or throws (lines 382-384); then addDoc
\* is issued.
journalFeedback ==
  /\ handler.kind = "journal" /\ handler.pc = "feedback"
  /\ \/ /\ handler' = [handler EXCEPT !.pc = "addDoc", !.aiFeedback = "text"]
        /\ UNCHANGED failures
     \/ /\ CanFail
        /\ handler' = [handler EXCEPT !.pc = "addDoc", !.aiFeedback = "error"]
        /\ failures' = failures + 1
  /\ UNCHANGED <<journalVars, routineVars, usp, userActions, handlerFrame>>

\* await addDoc(growthJournal, { content, timestamp, aiFeedback, questions: [] })
\* completes; updateStudentProfile is called with the journal reward (lines 387-389).
journalAddDoc ==
  /\ handler.kind = "journal" /\ handler.pc = "addDoc"
  /\ \/ /\ growthJournal' = Append(growthJournal,
                                   newEntry(Len(growthJournal) + 1, handler.aiFeedback))
        /\ handler' = [handler EXCEPT !.pc = "usp", !.newDocRef = Len(growthJournal) + 1]
        /\ usp' = [usp EXCEPT ![HandlerTask] = uspEnter(Student, Student, journalUpdates)]
        /\ UNCHANGED failures
     \/ /\ CanFail
        /\ handler' = IdleHandler
        /\ failures' = failures + 1
        /\ UNCHANGED <<growthJournal, usp>>
  /\ UNCHANGED <<growthJournalEntries, generatedQuestions, questionResults, quizRewards,
                 routineVars,
                 userActions, handlerFrame>>

\* handleGenerateQuestions: await callGeminiAPIStructured(prompt, questionSchema)
\* completes (lines 364-365); without questions the handlers return.
journalQuestions ==
  /\ handler.kind = "journal" /\ handler.pc = "questions"
  /\ \/ /\ \E questions \in {0, questionsAsked} :
             handler' = IF questions > 0 THEN [handler EXCEPT !.pc = "updateDoc"]
                        ELSE IdleHandler
        /\ UNCHANGED failures
     \/ /\ CanFail
        /\ handler' = IdleHandler
        /\ failures' = failures + 1
  /\ UNCHANGED <<journalVars, routineVars, usp, userActions, handlerFrame>>

\* handleGenerateQuestions: await updateDoc(growthJournalDoc, { questions })
\* completes (line 367); handleJournalSubmit shows the questions (line 391).
journalUpdateDoc ==
  /\ handler.kind = "journal" /\ handler.pc = "updateDoc"
  /\ \/ /\ growthJournal' = [growthJournal EXCEPT
                                ![handler.newDocRef] = updateQuestions(@, questionsAsked)]
        /\ generatedQuestions' = questionsWithIds(handler.newDocRef, questionsAsked)
        /\ questionResults' = 0
        /\ UNCHANGED failures
     \/ /\ CanFail
        /\ failures' = failures + 1
        /\ UNCHANGED <<growthJournal, generatedQuestions, questionResults>>
  /\ handler' = IdleHandler
  /\ UNCHANGED <<growthJournalEntries, quizRewards, routineVars, usp, userActions,
                 handlerFrame>>

\* The journal listener (line 327) delivers the collection: the questions of the
\* latest entry are shown, if it has any.
journalSnapshot ==
  /\ StudentMounted
  /\ growthJournalEntries # growthJournal
  /\ growthJournalEntries' = growthJournal
  /\ IF Len(growthJournal) > 0 /\ growthJournal[Len(growthJournal)].questions > 0
       THEN /\ generatedQuestions' =
                 questionsWithIds(Len(growthJournal), growthJournal[Len(growthJournal)].questions)
            /\ questionResults' = 0
       ELSE /\ generatedQuestions' = <<>>
            /\ UNCHANGED questionResults
  /\ UNCHANGED <<growthJournal, quizRewards, routineVars, handler, usp, failures, userActions,
                 handlerFrame>>

\* The student submits the answer to a question on display that has no result
\* yet; a correct answer is rewarded (lines 417-421).  The questions are
\* answered in the order they are shown; quizRewards counts the reward.
handleAnswerSubmission ==
  /\ StudentMounted
  /\ handler = IdleHandler
  /\ questionResults < Len(generatedQuestions)
  /\ UserActs
  /\ questionResults' = questionResults + 1
  /\ \E answer \in Answers :
       IF isCorrect(answer, correctAnswer)
         THEN /\ handler' = [IdleHandler EXCEPT !.kind = "answer", !.pc = "usp",
                                                !.answer = answer]
              /\ usp' = [usp EXCEPT ![HandlerTask] = uspEnter(Student, Student, answerUpdates)]
              /\ quizRewards' =
                   [quizRewards EXCEPT ![generatedQuestions[questionResults + 1]] = @ + 1]
         ELSE UNCHANGED <<handler, usp, quizRewards>>
  /\ UNCHANGED <<growthJournal, growthJournalEntries, generatedQuestions, routineVars,
                 failures, handlerFrame>>

\* The student adds a routine: addDoc(customRoutines, { ..., completedDays: {} })
\* (lines 423-429).
handleAddCustomRoutine ==
  /\ StudentMounted
  /\ ~routineDocs.exists
  /\ UserActs
  /\ \/ /\ routineDocs' = [exists |-> TRUE, completedToday |-> FALSE]
        /\ UNCHANGED failures
     \/ /\ CanFail
        /\ failures' = failures + 1
        /\ UNCHANGED routineDocs
  /\ UNCHANGED <<journalVars, customRoutines, routineRewards, handler, usp, handlerFrame>>

\* The routine listener (line 326) delivers the collection.
routineSnapshot ==
  /\ StudentMounted
  /\ customRoutines # routineDocs
  /\ customRoutines' = routineDocs
  /\ UNCHANGED <<journalVars, routineDocs, routineRewards, handler, usp, failures,
                 userActions, handlerFrame>>

\* The student ticks or unticks today's box of the routine: lines 432-436 up to
\* the await of updateDoc.  The box shows what the dashboard holds.
handleToggleTodaysRoutineCompletion ==
  /\ StudentMounted
  /\ customRoutines.exists
  /\ handler = IdleHandler
  /\ UserActs
  /\ handler' = [IdleHandler EXCEPT !.kind = "routine", !.pc = "updateDoc",
                                    !.isNowChecked = ~customRoutines.completedToday,
                                    !.wasCompletedToday = customRoutines.completedToday]
  /\ UNCHANGED <<journalVars, routineVars, usp, failures, handlerFrame>>

\* await updateDoc(customRoutineDoc, { completedDays.<today>: isNowChecked })
\* completes; a box newly ticked is rewarded (lines 436-437).
routineUpdateDoc ==
  /\ handler.kind = "routine" /\ handler.pc = "updateDoc"
  /\ \/ /\ routineDocs.exists
        /\ routineDocs' = [routineDocs EXCEPT !.completedToday = handler.isNowChecked]
        /\ IF handler.isNowChecked /\ ~handler.wasCompletedToday
             THEN /\ handler' = [handler EXCEPT !.pc = "usp"]
                  /\ usp' = [usp EXCEPT ![HandlerTask] =
                                          uspEnter(Student, Student, routineUpdates)]
                  /\ routineRewards' = routineRewards + 1
             ELSE /\ handler' = IdleHandler
                  /\ UNCHANGED <<usp, routineRewards>>
        /\ UNCHANGED failures
     \/ /\ CanFail
        /\ handler' = IdleHandler
        /\ failures' = failures + 1
        /\ UNCHANGED <<routineDocs, usp, routineRewards>>
  /\ UNCHANGED <<journalVars, customRoutines, userActions, handlerFrame>>

\* ------------------------------- callGeminiAPIWithExponentialBackoff

\* let retries = 3; let delay = 1000;
retries == 3
initialDelay == 1000

\* The call record: i is the loop index, fetches the fetch calls issued, slept
\* the delays waited, errors the errors caught, each with its attempt.
IdleGemini ==
  [pc |-> "idle", i |-> 0, delay |-> initialDelay, fetches |-> 0, slept |-> <<>>,
   errors |-> <<>>, outcome |-> "none", value |-> [attempt |-> 0, what |-> "none"]]

\* The call enters the loop and issues the first fetch.
geminiEnter == [IdleGemini EXCEPT !.pc = "fetch", !.fetches = 1]

\* A faulty catch: after the last attempt the loop ends and null is returned.
geminiCatchReturnsNull(g, error) ==
  IF g.i < retries - 1
    THEN [g EXCEPT !.pc = "sleep",
                   !.errors = Append(@, [attempt |-> g.i + 1, what |-> error])]
    ELSE [g EXCEPT !.pc = "done", !.outcome = "returned",
                   !.errors = Append(@, [attempt |-> g.i + 1, what |-> error]),
                   !.value = [attempt |-> 0, what |-> "null"]]

\* catch (error): wait when an attempt is left, else throw error (lines 182-190).
geminiCatch(g, error) ==
  IF g.i < retries - 1
    THEN [g EXCEPT !.pc = "sleep",
                   !.errors = Append(@, [attempt |-> g.i + 1, what |-> error])]
    ELSE [g EXCEPT !.pc = "done", !.outcome = "raised",
                   !.errors = Append(@, [attempt |-> g.i + 1, what |-> error]),
                   !.value = [attempt |-> g.i + 1, what |-> error]]

\* return result.candidates[0].content.parts[0].text (line 177)
geminiReturn(g) ==
  [g EXCEPT !.pc = "done", !.outcome = "returned",
            !.value = [attempt |-> g.i + 1, what |-> "text"]]

\* A faulty wait: the delay is not doubled.
geminiAfterSleepSameDelay(g) ==
  [g EXCEPT !.pc = "fetch", !.slept = Append(@, g.delay), !.i = @ + 1, !.fetches = @ + 1]

\* The timer fired: delay *= 2, i++, and the next fetch is issued.
geminiAfterSleep(g) ==
  [g EXCEPT !.pc = "fetch", !.slept = Append(@, g.delay), !.delay = @ * 2,
            !.i = @ + 1, !.fetches = @ + 1]

\* ------------------------------- the teacher's report and recommendations

\* analysisResults[student.id] of the teacher's dashboard: unset, or the report
\* with its summary and its recommendedMissions (a list, or none).
NoResult ==
  [set |-> FALSE, summary |-> "none", recommended |-> FALSE, recommendedMissions |-> <<>>]

\* { summary: "an error occurred ..." } (line 575).
errorResult ==
  [set |-> TRUE, summary |-> "error", recommended |-> FALSE, recommendedMissions |-> <<>>]

\* What the report call may return (analysisSchema, line 220): a report without
\* recommendedMissions, or one with a list of missions, possibly empty.
AnalysisOutputs ==
  {[set |-> TRUE, summary |-> "report", recommended |-> FALSE, recommendedMissions |-> <<>>]}
    \cup {[set |-> TRUE, summary |-> "report", recommended |-> TRUE,
           recommendedMissions |-> list] : list \in MissionLists(MaxMissions) \cup {<<>>}}

\* No handleAddRecommendedMissions call is in flight.
IdleRecommend == [pc |-> "idle", missions |-> <<>>, analysisResults |-> NoResult]

teacherFrame == <<profileVars, session, viewVars, runs, handler, journalVars, routineVars,
                  usp, applied, granted, harnessVars>>

\* The teacher presses the report button of a student whose mirror document is
\* listed: lines 544-567 up to the await of the report call.
handleGenerateAnalysis ==
  /\ publicProfile.exists
  /\ generatingAnalysisId = "none"
  /\ UserActs
  /\ generatingAnalysisId' = Student
  /\ analysisResults' = NoResult
  /\ UNCHANGED <<missionVars, recommending, failures, teacherFrame>>

\* await callGeminiAPIStructured(prompt, analysisSchema) completes: a report is
\* stored, or the call threw or returned nothing and the error summary is
\* stored (lines 567-577).
analysisApi ==
  /\ generatingAnalysisId = Student
  /\ \/ /\ \E result \in AnalysisOutputs : analysisResults' = result
        /\ UNCHANGED failures
     \/ /\ CanFail
        /\ analysisResults' = errorResult
        /\ failures' = failures + 1
  /\ generatingAnalysisId' = "none"
  /\ UNCHANGED <<missionVars, recommending, userActions, teacherFrame>>

\* The teacher presses the add button under the recommended missions: lines
\* 581-598 up to the await of batch.commit().  With an empty list the handler
\* returns at once.  The handler keeps the analysisResults of the render it
\* was made in.
handleAddRecommendedMissions ==
  /\ publicProfile.exists
  /\ analysisResults.set /\ analysisResults.recommended
  /\ recommending.pc = "idle"
  /\ missionsCreated + Len(analysisResults.recommendedMissions) <= MaxMissions
  /\ UserActs
  /\ recommending' =
       IF Len(analysisResults.recommendedMissions) = 0 THEN IdleRecommend
       ELSE [pc |-> "commit", missions |-> analysisResults.recommendedMissions,
             analysisResults |-> analysisResults]
  /\ UNCHANGED <<missionVars, analysisResults, generatingAnalysisId, failures, teacherFrame>>

\* A faulty commit: only the first write of the batch is applied.
batchCommitFirstOnly(docs, created, list) ==
  [m \in MissionIds |->
     IF m = created + 1
       THEN With(newMission(list[m - created]), "isRecommended", TRUE)
       ELSE docs[m]]

\* batch.commit(): every batch.set of lines 588-596 is applied, each a new
\* document { ...mission, isCompleted: false, isPendingApproval: false,
\* isStudentRewarded: false, isRecommended: true }.
batchCommit(docs, created, list) ==
  [m \in MissionIds |->
     IF m \in created + 1 .. created + Len(list)
       THEN With(newMission(list[m - created]), "isRecommended", TRUE)
       ELSE docs[m]]

\* await batch.commit() completes: the batch is applied and recommendedMissions
\* of the kept result is set to null (lines 600-605), or the commit is rejected
\* and the catch of line 606 logs it.
recommendCommit ==
  /\ recommending.pc = "commit"
  /\ \/ /\ missions' = batchCommit(missions, missionsCreated, recommending.missions)
        /\ missionsCreated' = missionsCreated + Len(recommending.missions)
        /\ analysisResults' = [recommending.analysisResults EXCEPT
                                 !.recommended = FALSE, !.recommendedMissions = <<>>]
        /\ UNCHANGED failures
     \/ /\ CanFail
        /\ failures' = failures + 1
        /\ UNCHANGED <<missionVars, analysisResults>>
  /\ recommending' = IdleRecommend
  /\ UNCHANGED <<generatingAnalysisId, userActions, teacherFrame>>

\* ------------------------------------------------------ the specification

Init ==
  /\ privateProfile = NoDoc
  /\ publicProfile = NoDoc
  /\ missions = [m \in MissionIds |-> NoDoc]
  /\ missionsCreated = 0
  /\ session = FreshSession
  /\ dailyMissions = [m \in MissionIds |-> NoDoc]
  /\ studentsMissions = [m \in MissionIds |-> NoDoc]
  /\ runs = [r \in RunIds |-> IdleRun]
  /\ handler = IdleHandler
  /\ growthJournal = <<>>
  /\ growthJournalEntries = <<>>
  /\ generatedQuestions = <<>>
  /\ questionResults = 0
  /\ quizRewards = [q \in QuestionIds |-> 0]
  /\ routineDocs = NoDoc
  /\ customRoutines = NoDoc
  /\ routineRewards = 0
  /\ usp = [t \in Tasks |-> IdleCall]
  /\ applied = [m \in MissionIds |-> 0]
  /\ granted = NoUpdates
  /\ failures = 0
  /\ userActions = 0
  /\ callsMade = 0
  /\ gemini = IdleGemini
  /\ analysisResults = NoResult
  /\ generatingAnalysisId = "none"
  /\ recommending = IdleRecommend

Next ==
  \/ signInAnonymously
  \/ onAuthStateChanged
  \/ login
  \/ loginSetPrivate
  \/ loginSetPublic
  \/ Reload
  \/ handleGenerateDailyMissions
  \/ generateApi
  \/ generateGetDocs
  \/ generateDeleteDoc
  \/ generateAddDoc
  \/ handleStudentRequestMissionCompletion
  \/ teacherSnapshot
  \/ handleTeacherMissionToggle
  \/ missionSnapshot
  \/ handleJournalSubmit
  \/ journalFeedback
  \/ journalAddDoc
  \/ journalQuestions
  \/ journalUpdateDoc
  \/ journalSnapshot
  \/ handleAnswerSubmission
  \/ handleAddCustomRoutine
  \/ routineSnapshot
  \/ handleToggleTodaysRoutineCompletion
  \/ routineUpdateDoc
  \/ \E r \in RunIds : processRewardsUpdateDoc(r)
  \/ \E t \in RunIds \cup {HandlerTask} : uspGetDoc(t)
  \/ \E t \in RunIds \cup {HandlerTask} : uspSetPublic(t)
  \/ \E t \in RunIds \cup {HandlerTask} : uspSetPrivate(t)

Spec == Init /\ [][Next]_vars

\* ------------------------------------- SpecUpdate: the function on its own

\* Reward deltas: those of the call sites (lines 347, 389, 420, 437) and bare
\* xp deltas that cross one and several level thresholds.
UpdateInputs ==
  { [xp |-> 10, gold |-> 5, skills |-> [k \in {"literacy", "creativity"} |-> 5]],
    [skills |-> [k \in {"problemSolving"} |-> 15]],
    [skills |-> [k \in {"selfDirected", "responsibility"} |->
                   IF k = "selfDirected" THEN 10 ELSE 5]],
    [xp |-> 10],
    [xp |-> 100],
    [xp |-> 250, gold |-> 0] }

\* Stored profiles the function may find.
ProfileInputs ==
  { Profile("student", 0, 0, 1, initialSkills),
    Profile("student", 0, 0, 1, EmptyMap),
    Profile("student", 95, 5, 1, [initialSkills EXCEPT !["literacy"] = 5]),
    Profile("student", 250, 20, 3, [initialSkills EXCEPT !["responsibility"] = 5]) }

InitUpdate ==
  /\ privateProfile \in ProfileInputs \cup {NoDoc}
  /\ publicProfile \in {privateProfile, NoDoc, Profile("student", 0, 0, 1, initialSkills)}
  /\ missions = [m \in MissionIds |-> NoDoc]
  /\ missionsCreated = 0
  /\ session = FreshSession
  /\ dailyMissions = [m \in MissionIds |-> NoDoc]
  /\ studentsMissions = [m \in MissionIds |-> NoDoc]
  /\ runs = [r \in RunIds |-> IdleRun]
  /\ handler = IdleHandler
  /\ growthJournal = <<>>
  /\ growthJournalEntries = <<>>
  /\ generatedQuestions = <<>>
  /\ questionResults = 0
  /\ quizRewards = [q \in QuestionIds |-> 0]
  /\ routineDocs = NoDoc
  /\ customRoutines = NoDoc
  /\ routineRewards = 0
  /\ usp = [t \in Tasks |-> IdleCall]
  /\ applied = [m \in MissionIds |-> 0]
  /\ granted = NoUpdates
  /\ failures = 0
  /\ userActions = 0
  /\ callsMade = 0
  /\ gemini = IdleGemini
  /\ analysisResults = NoResult
  /\ generatingAnalysisId = "none"
  /\ recommending = IdleRecommend

\* updateStudentProfile(db, userIdToUpdate, updates, updaterId) is called.
CallUpdateStudentProfile ==
  /\ usp[Harness].pc \in {"idle", "done"}
  /\ callsMade < MaxCalls
  /\ \E updaterId \in Users, updates \in UpdateInputs :
       usp' = [usp EXCEPT ![Harness] = uspEnter(Student, updaterId, updates)]
  /\ callsMade' = callsMade + 1
  /\ UNCHANGED <<privateProfile, publicProfile, missions, missionsCreated, session,
                 dailyMissions, studentsMissions, runs, handler, journalVars, routineVars,
                 applied, granted, failures, userActions, gemini, teacherVars>>

NextUpdate ==
  \/ CallUpdateStudentProfile
  \/ uspGetDoc(Harness)
  \/ uspSetPublic(Harness)
  \/ uspSetPrivate(Harness)

SpecUpdate == InitUpdate /\ [][NextUpdate]_vars

\* ------------------ SpecGemini: callGeminiAPIWithExponentialBackoff alone

geminiFrame ==
  <<profileVars, missionVars, session, viewVars, runs, handler, journalVars, routineVars,
    usp, applied, granted, failures, userActions, teacherVars>>

\* callGeminiAPIWithExponentialBackoff(apiUrl, payload) is called.
CallGemini ==
  /\ gemini.pc \in {"idle", "done"}
  /\ callsMade < MaxCalls
  /\ gemini' = geminiEnter
  /\ callsMade' = callsMade + 1
  /\ UNCHANGED geminiFrame

\* await fetch(apiUrl, ...) completes with an OK response, with another status,
\* or throws (lines 166-171).
geminiFetch ==
  /\ gemini.pc = "fetch"
  /\ \/ gemini' = [gemini EXCEPT !.pc = "json"]
     \/ gemini' = [gemini EXCEPT !.pc = "errorJson"]
     \/ gemini' = geminiCatch(gemini, "fetch")
  /\ UNCHANGED <<callsMade, geminiFrame>>

\* await response.json() of a response that is not OK completes, and the status
\* error is thrown, or throws itself (lines 172-173).
geminiErrorJson ==
  /\ gemini.pc = "errorJson"
  /\ \/ gemini' = geminiCatch(gemini, "status")
     \/ gemini' = geminiCatch(gemini, "unreadable")
  /\ UNCHANGED <<callsMade, geminiFrame>>

\* await response.json() of an OK response completes with the text, completes
\* without it, or throws (lines 175-181).
geminiJson ==
  /\ gemini.pc = "json"
  /\ \/ gemini' = geminiReturn(gemini)
     \/ gemini' = geminiCatch(gemini, "noText")
     \/ gemini' = geminiCatch(gemini, "unreadable")
  /\ UNCHANGED <<callsMade, geminiFrame>>

\* await new Promise(res => setTimeout(res, delay)) completes (lines 185-186).
geminiSleep ==
  /\ gemini.pc = "sleep"
  /\ gemini' = geminiAfterSleep(gemini)
  /\ UNCHANGED <<callsMade, geminiFrame>>

NextGemini ==
  \/ CallGemini
  \/ geminiFetch
  \/ geminiErrorJson
  \/ geminiJson
  \/ geminiSleep

SpecGemini == Init /\ [][NextGemini]_vars

\* ----------------------- SpecRoutine: the routine of a logged-in student

\* The provider once the student has logged in.
StudentSession ==
  [FreshSession EXCEPT !.currentUser = TRUE, !.userRole = "student", !.loading = FALSE,
                       !.isAuthInitialized = TRUE, !.pc = "idle", !.role = "student",
                       !.inputID = StudentName, !.inputPassword = "1024",
                       !.result = "success"]

\* The state a successful login of the student leaves.
InitRoutine ==
  /\ privateProfile = userProfileData("student", StudentName)
  /\ publicProfile = publicProfileData("student", StudentName)
  /\ missions = [m \in MissionIds |-> NoDoc]
  /\ missionsCreated = 0
  /\ session = StudentSession
  /\ dailyMissions = [m \in MissionIds |-> NoDoc]
  /\ studentsMissions = [m \in MissionIds |-> NoDoc]
  /\ runs = [r \in RunIds |-> IdleRun]
  /\ handler = IdleHandler
  /\ growthJournal = <<>>
  /\ growthJournalEntries = <<>>
  /\ generatedQuestions = <<>>
  /\ questionResults = 0
  /\ quizRewards = [q \in QuestionIds |-> 0]
  /\ routineDocs = NoDoc
  /\ customRoutines = NoDoc
  /\ routineRewards = 0
  /\ usp = [t \in Tasks |-> IdleCall]
  /\ applied = [m \in MissionIds |-> 0]
  /\ granted = NoUpdates
  /\ failures = 0
  /\ userActions = 0
  /\ callsMade = 0
  /\ gemini = IdleGemini
  /\ analysisResults = NoResult
  /\ generatingAnalysisId = "none"
  /\ recommending = IdleRecommend

NextRoutine ==
  \/ handleAddCustomRoutine
  \/ routineSnapshot
  \/ handleToggleTodaysRoutineCompletion
  \/ routineUpdateDoc
  \/ uspGetDoc(HandlerTask)
  \/ uspSetPublic(HandlerTask)
  \/ uspSetPrivate(HandlerTask)

SpecRoutine == InitRoutine /\ [][NextRoutine]_vars

\* ------------------------- SpecTeacher: the teacher's dashboard on its own

\* The teacher's dashboard with the student's profile and mirror in place.
NextTeacher ==
  \/ handleGenerateAnalysis
  \/ analysisApi
  \/ handleAddRecommendedMissions
  \/ recommendCommit
  \/ teacherSnapshot
  \/ handleTeacherMissionToggle

SpecTeacher == InitRoutine /\ [][NextTeacher]_vars

\* ------------------------------ SpecLogin: the provider and the login form

NextLogin ==
  \/ signInAnonymously
  \/ onAuthStateChanged
  \/ login
  \/ loginSetPrivate
  \/ loginSetPublic
  \/ Reload
  \/ logout
  \/ signOut

SpecLogin == Init /\ [][NextLogin]_vars

\* ----------------------- SpecJournal: the journal and its quiz on their own

\* The logged-in student writes journal entries and answers the questions;
\* the page may be loaded again.
NextJournal ==
  \/ handleJournalSubmit
  \/ journalFeedback
  \/ journalAddDoc
  \/ journalQuestions
  \/ journalUpdateDoc
  \/ journalSnapshot
  \/ handleAnswerSubmission
  \/ uspGetDoc(HandlerTask)
  \/ uspSetPublic(HandlerTask)
  \/ uspSetPrivate(HandlerTask)
  \/ Reload
  \/ onAuthStateChanged

SpecJournal == InitRoutine /\ [][NextJournal]_vars

\* --------------------------- SpecReward: settlement of completed missions

\* A mission of each type of missionSchema.
AllMissionKinds == {[type |-> t, rewardXp |-> 95, rewardGold |-> 5] : t \in MissionTypes}

\* A mission the teacher has ticked.
completedMission(m) == [newMission(m) EXCEPT !.isCompleted = TRUE]

\* The student is logged in, the generation call has added one or two missions
\* of any types, and the teacher has ticked the first and perhaps the second.
InitReward ==
  /\ privateProfile = userProfileData("student", StudentName)
  /\ publicProfile = publicProfileData("student", StudentName)
  /\ \E first \in AllMissionKinds :
       \/ /\ missions = [m \in MissionIds |->
                           IF m = 1 THEN completedMission(first) ELSE NoDoc]
          /\ missionsCreated = 1
       \/ /\ \E second \in AllMissionKinds :
               missions \in {[m \in MissionIds |->
                                IF m = 1 THEN completedMission(first)
                                ELSE IF m = 2 THEN doc ELSE NoDoc] :
                             doc \in {newMission(second), completedMission(second)}}
          /\ missionsCreated = 2
  /\ session = StudentSession
  /\ dailyMissions = [m \in MissionIds |-> NoDoc]
  /\ studentsMissions = [m \in MissionIds |-> NoDoc]
  /\ runs = [r \in RunIds |-> IdleRun]
  /\ handler = IdleHandler
  /\ growthJournal = <<>>
  /\ growthJournalEntries = <<>>
  /\ generatedQuestions = <<>>
  /\ questionResults = 0
  /\ quizRewards = [q \in QuestionIds |-> 0]
  /\ routineDocs = NoDoc
  /\ customRoutines = NoDoc
  /\ routineRewards = 0
  /\ usp = [t \in Tasks |-> IdleCall]
  /\ applied = [m \in MissionIds |-> 0]
  /\ granted = NoUpdates
  /\ failures = 0
  /\ userActions = 0
  /\ callsMade = 0
  /\ gemini = IdleGemini
  /\ analysisResults = NoResult
  /\ generatingAnalysisId = "none"
  /\ recommending = IdleRecommend

NextReward ==
  \/ missionSnapshot
  \/ \E r \in RunIds : processRewardsUpdateDoc(r)
  \/ \E t \in RunIds : uspGetDoc(t)
  \/ \E t \in RunIds : uspSetPublic(t)
  \/ \E t \in RunIds : uspSetPrivate(t)

SpecReward == InitReward /\ [][NextReward]_vars

\* A listener is called for every change it has not delivered yet, and a
\* remote operation in flight completes: each step of the settlement that can
\* be taken is taken in the end.  Failures stay within MaxFailures, so from
\* some point on every remote operation succeeds.
FairReward ==
  /\ WF_vars(missionSnapshot)
  /\ \A r \in RunIds : WF_vars(processRewardsUpdateDoc(r))
  /\ \A t \in RunIds : WF_vars(uspGetDoc(t))
  /\ \A t \in RunIds : WF_vars(uspSetPublic(t))
  /\ \A t \in RunIds : WF_vars(uspSetPrivate(t))

SpecRewardFair == SpecReward /\ FairReward

\* ------------- SpecOverlap: settlement beside the journal and the quiz

\* The logged-in student's dashboard settles completed missions while the
\* student writes journal entries and answers questions.
NextOverlap ==
  \/ missionSnapshot
  \/ \E r \in RunIds : processRewardsUpdateDoc(r)
  \/ handleJournalSubmit
  \/ journalFeedback
  \/ journalAddDoc
  \/ journalQuestions
  \/ journalUpdateDoc
  \/ journalSnapshot
  \/ handleAnswerSubmission
  \/ \E t \in RunIds \cup {HandlerTask} : uspGetDoc(t)
  \/ \E t \in RunIds \cup {HandlerTask} : uspSetPublic(t)
  \/ \E t \in RunIds \cup {HandlerTask} : uspSetPrivate(t)

\* One reading mission, ticked by the teacher.
InitOverlap == InitReward /\ missionsCreated = 1 /\ missions[1].type = "reading"

SpecOverlap == InitOverlap /\ [][NextOverlap]_vars

\* --------------------------------------- properties of updateStudentProfile

\* The calls that found their source document and computed a profile.
Computed == {t \in Tasks : usp[t].currentData.exists}

JournalReward ==
  [xp |-> 10, gold |-> 5, skills |-> [k \in {"literacy", "creativity"} |-> 5]]

\* C4: the profile computed by updateStudentProfile has xp, gold, level and every
\* skill score at least as large as in the profile it read.
C4_NeverDecreases ==
  \A t \in Computed :
    LET cur == usp[t].currentData
        new == usp[t].updatedProfile
    IN  /\ new.xp >= cur.xp
        /\ new.gold >= cur.gold
        /\ new.level >= cur.level
        /\ \A k \in DOMAIN cur.skills :
             k \in DOMAIN new.skills /\ new.skills[k] >= cur.skills[k]

\* A call that raised xp, gold, level and a skill at once.
C4_Witness ==
  \E t \in Computed :
    LET cur == usp[t].currentData
        new == usp[t].updatedProfile
    IN  /\ new.xp > cur.xp /\ new.gold > cur.gold /\ new.level > cur.level
        /\ \E k \in DOMAIN cur.skills : new.skills[k] > cur.skills[k]

\* C5: the computed profile has xp and gold increased by the delta (absent fields
\* count as 0), every delta skill at old score (0 if absent) plus increment, and
\* as level the least L >= the old level with newXp < L*100; (95, level 1) + 10
\* gives (105, 2), (105, 2) + 100 gives (205, 3), and the journal reward on an
\* empty profile gives xp 10, level 1, gold 5 and the two skills at 5.
C5_ComputedProfile ==
  \A t \in Computed :
    LET cur == usp[t].currentData
        new == usp[t].updatedProfile
        d   == usp[t].updates
        dxp == IF "xp" \in DOMAIN d THEN d.xp ELSE 0
        dgold == IF "gold" \in DOMAIN d THEN d.gold ELSE 0
        dskills == IF "skills" \in DOMAIN d THEN d.skills ELSE EmptyMap
    IN  /\ new.xp = cur.xp + dxp
        /\ new.gold = cur.gold + dgold
        /\ \A k \in DOMAIN dskills :
             new.skills[k] = (IF k \in DOMAIN cur.skills THEN cur.skills[k] ELSE 0) + dskills[k]
        /\ new.level >= cur.level
        /\ new.xp < new.level * 100
        /\ \A L \in cur.level .. (new.level - 1) : new.xp >= L * 100
        /\ (cur.xp = 95 /\ cur.level = 1 /\ dxp = 10) => (new.xp = 105 /\ new.level = 2)
        /\ (cur.xp = 105 /\ cur.level = 2 /\ dxp = 100) => (new.xp = 205 /\ new.level = 3)
        /\ (cur = Profile("student", 0, 0, 1, EmptyMap) /\ d = JournalReward)
             => new = With(Profile("student", 10, 5, 1,
                                   [k \in {"literacy", "creativity"} |-> 5]),
                           "lastUpdate", serverTimestamp)

\* The second call of the chain 95 -> 105 -> 205.
C5_Witness ==
  \E t \in Computed :
    /\ usp[t].currentData.xp = 105 /\ usp[t].currentData.level = 2
    /\ usp[t].updatedProfile.xp = 205 /\ usp[t].updatedProfile.level = 3

\* The operations a finished call issued when nothing failed before the private write.
ExpectedLog(c, privateWritten) ==
  << <<"getDoc", IF c.updaterId = c.userIdToUpdate THEN "private" ELSE "public">>,
     <<"setDoc", "public">> >>
  \o (IF privateWritten THEN << <<"setDoc", "private">> >> ELSE <<>>)

\* C9 as stated: a call that found its source reads the private copy when the
\* updater is the owner and the mirror otherwise, writes the mirror, and writes
\* the private copy if and only if the updater is the owner, mirror first.
C9_AsStated ==
  \A t \in Computed :
    usp[t].pc = "done" =>
      usp[t].log = ExpectedLog(usp[t], usp[t].updaterId = usp[t].userIdToUpdate)

\* C9 amended: as stated, except that the private copy is written if and only if
\* the updater is the owner and the mirror write did not fail.
C9_DocumentsTouched ==
  \A t \in Computed :
    /\ usp[t].pc = "done" =>
         usp[t].log = ExpectedLog(usp[t], /\ usp[t].updaterId = usp[t].userIdToUpdate
                                          /\ usp[t].failed # "setPublic")
    /\ usp[t].pc = "setPublic" => usp[t].log = ExpectedLog(usp[t], FALSE)
    /\ usp[t].pc = "setPrivate" =>
         /\ usp[t].updaterId = usp[t].userIdToUpdate
         /\ usp[t].log = ExpectedLog(usp[t], TRUE)

\* A finished call made by somebody other than the owner.
C9_Witness ==
  \E t \in Computed :
    /\ usp[t].pc = "done" /\ usp[t].updaterId # usp[t].userIdToUpdate
    /\ usp[t].failed = "none"

\* C10: a call whose source document does not exist issues no write, leaves both
\* stored documents as they were and returns normally; a call whose read or
\* write failed returns normally too.
C10_MissingOrFailedReturns ==
  /\ [](\A t \in Tasks :
          usp[t].pc = "done" =>
            /\ usp[t].outcome = "returned"
            /\ (~usp[t].currentData.exists) => Len(usp[t].log) = 1)
  /\ [][\A t \in Tasks :
          (usp[t].pc = "getDoc" /\ usp'[t].pc = "done")
            => UNCHANGED <<privateProfile, publicProfile>>]_vars

\* A call that found no source document, and returned.
C10_Witness ==
  \E t \in Tasks :
    /\ usp[t].pc = "done" /\ usp[t].failed = "none" /\ ~usp[t].currentData.exists
    /\ usp[t].outcome = "returned"

\* ------------------------------------------------- claims on settlement

\* C1: every mission's reward is applied to the student's profile at most once,
\* also when two runs of processRewards overlap on it.
C1_AtMostOnce == \A m \in MissionIds : applied[m] <= 1

\* C2: a mission whose isStudentRewarded flag is true has had its reward written
\* to the owning student's profile.
C2_RewardedWasWritten ==
  \A m \in MissionIds :
    missions[m].exists /\ missions[m].isStudentRewarded => applied[m] >= 1

\* The missions a run may reward, as the snapshot shows them.
SeenCompletedUnrewarded(snapshot) ==
  {m \in MissionIds : /\ snapshot[m].exists
                      /\ snapshot[m].isCompleted
                      /\ ~snapshot[m].isStudentRewarded}

\* C3: a run of processRewards sets out to reward exactly the missions its
\* snapshot shows completed and not yet rewarded, calls updateStudentProfile for
\* each of them and for no other, and no mission seen rewarded or not completed
\* gets a profile update or a mission write; a snapshot without such a mission
\* starts nothing.  (A step with userActions changed is a user's, one that loads
\* the page again among them; the others are the program's.)
C3_RewardsExactlyQualifying ==
  [][ /\ \A r \in RunIds :
           /\ ~runBusy(runs[r]) /\ runBusy(runs'[r])
                => /\ runs'[r].plan = SeenCompletedUnrewarded(dailyMissions')
                   /\ runs'[r].plan # {}
           /\ runBusy(runs[r]) /\ runBusy(runs'[r]) => runs'[r].plan = runs[r].plan
           /\ runs'[r].marked \subseteq runs'[r].settled
           /\ runs'[r].settled \subseteq runs'[r].plan
           /\ runBusy(runs[r]) /\ ~runBusy(runs'[r]) /\ userActions' = userActions
                => runs[r].settled = runs[r].plan
           /\ usp'[r].pc # "idle" /\ usp[r].pc = "idle"
                => /\ runs'[r].todo # <<>>
                   /\ Head(runs'[r].todo).id \in runs'[r].plan
                   /\ usp'[r].updates = rewardUpdates(Head(runs'[r].todo))
      /\ ( /\ dailyMissions' # dailyMissions
           /\ userActions' = userActions
           /\ SeenCompletedUnrewarded(dailyMissions') = {} )
           => runs' = runs /\ usp' = usp
      /\ \A m \in MissionIds :
           ( \/ applied'[m] # applied[m]
             \/ /\ missions[m].exists /\ missions'[m].exists
                /\ missions'[m].isStudentRewarded # missions[m].isStudentRewarded )
           => \E r \in RunIds : /\ runBusy(runs[r])
                                /\ Head(runs[r].todo).id = m
                                /\ m \in runs[r].plan ]_vars

\* A snapshot showed a rewarded mission, rewarded once, and no run is under way.
C3_Witness ==
  \E m \in MissionIds :
    /\ dailyMissions[m].exists /\ dailyMissions[m].isCompleted
    /\ dailyMissions[m].isStudentRewarded
    /\ applied[m] = 1
    /\ \A r \in RunIds : ~runBusy(runs[r])

\* ------------------------------------------- claims on the stored profiles

LevelMatchesXp(p) ==
  p.exists => /\ p.level >= 1
              /\ p.xp < p.level * 100
              /\ (p.level = 1 \/ p.xp >= (p.level - 1) * 100)

\* C6: the private copy and the public mirror of the student's profile each hold
\* level >= 1, xp < level*100 and (level = 1 or xp >= (level-1)*100), whatever
\* the order of login, journal, quiz, routine and settlement steps.
C6_LevelMatchesXp == LevelMatchesXp(privateProfile) /\ LevelMatchesXp(publicProfile)

\* Both copies hold a level above 2, reached by a reward that crossed two levels.
C6_Witness ==
  /\ privateProfile.exists /\ publicProfile.exists
  /\ privateProfile.level >= 3 /\ publicProfile.level >= 3

\* No call of updateStudentProfile and no login is under way.
NoUpdateInProgress ==
  /\ \A t \in Tasks : usp[t].pc \in {"idle", "done"}
  /\ session.pc = "idle"

\* C7: whenever no profile update of the owner is in progress, the private copy
\* and the public mirror hold equal xp, gold, level and skills.
C7_CopiesEqualWhenQuiet ==
  NoUpdateInProgress /\ privateProfile.exists /\ publicProfile.exists
    => /\ privateProfile.xp = publicProfile.xp
       /\ privateProfile.gold = publicProfile.gold
       /\ privateProfile.level = publicProfile.level
       /\ privateProfile.skills = publicProfile.skills

\* C8: the xp of the student's private profile never decreases from one state to
\* the next.
C8_XpNeverDecreases ==
  [][privateProfile.exists /\ privateProfile'.exists
       => privateProfile'.xp >= privateProfile.xp]_vars

\* ------------------------------------------- claims on frames and retries

\* The fields of a profile document that are no reward.
IdentityFields == {"role", "displayName", "userId", "isDeleted"}

\* Document new differs from old in nothing but xp, gold, level, the update
\* timestamp and the skills the delta names.
OnlyRewardFieldsDiffer(old, new, updates) ==
  old.exists /\ new.exists
    => /\ \A f \in IdentityFields :
            /\ f \in DOMAIN old <=> f \in DOMAIN new
            /\ f \in DOMAIN old => new[f] = old[f]
       /\ \A k \in DOMAIN old.skills :
            ("skills" \notin DOMAIN updates \/ k \notin DOMAIN updates.skills)
              => k \in DOMAIN new.skills /\ new.skills[k] = old.skills[k]

\* C11: a write of updateStudentProfile leaves role, display name, user id and
\* deletion flag of the private copy and of the mirror as they were, and every
\* skill the delta does not name keeps its score in both.
C11_OnlyRewardFieldsChange ==
  [][\A t \in Tasks :
       usp[t].pc \in {"setPublic", "setPrivate"} /\ usp'[t] # usp[t]
         => /\ OnlyRewardFieldsDiffer(publicProfile, publicProfile', usp[t].updates)
            /\ OnlyRewardFieldsDiffer(privateProfile, privateProfile', usp[t].updates)]_vars

\* The attempts of the call in hand that have failed.
AttemptsFailed == Len(gemini.errors)

\* C12: the call makes at most 3 attempts, each attempt after the first follows
\* a failed attempt and a wait of 1000 ms (before attempt 2) or 2000 ms (before
\* attempt 3), a returned call returns the text of its last attempt, the only
\* one that did not fail, and a finished call makes no further attempt.
C12_RetriesWithBackoff ==
  /\ [](/\ gemini.fetches <= 3
        /\ gemini.pc # "idle" => gemini.fetches = Len(gemini.slept) + 1
        /\ AttemptsFailed \in {gemini.fetches - 1, gemini.fetches}
        /\ \A k \in 1 .. AttemptsFailed : gemini.errors[k].attempt = k
        /\ \A k \in 1 .. Len(gemini.slept) :
             gemini.slept[k] = IF k = 1 THEN 1000 ELSE 2000
        /\ gemini.pc = "sleep" => AttemptsFailed = gemini.fetches
        /\ gemini.outcome = "returned"
             => /\ gemini.value = [attempt |-> gemini.fetches, what |-> "text"]
                /\ AttemptsFailed = gemini.fetches - 1)
  /\ [][gemini.pc = "done" /\ gemini' # gemini => gemini' = geminiEnter]_vars

\* A call that failed twice and then succeeded: three attempts, waits of 1000
\* and 2000 ms, the third attempt's text returned.
C12_Witness ==
  /\ gemini.outcome = "returned"
  /\ gemini.fetches = 3
  /\ gemini.slept = <<1000, 2000>>
  /\ gemini.value.attempt = 3

\* C13: a call whose attempts all failed has made exactly 3 attempts, waited
\* twice and not after the third, and raises the third attempt's error; no call
\* returns anything but an attempt's text.
C13_RaisesLastError ==
  /\ gemini.pc = "done" /\ AttemptsFailed = gemini.fetches
       => /\ gemini.fetches = 3
          /\ Len(gemini.slept) = 2
          /\ gemini.outcome = "raised"
          /\ gemini.value = gemini.errors[3]
          /\ gemini.value.attempt = 3
  /\ gemini.outcome = "raised" => AttemptsFailed = 3
  /\ gemini.outcome = "returned" => gemini.value.what = "text"
  /\ gemini.pc = "done" => gemini.outcome \in {"raised", "returned"}

\* Three attempts failed in three different ways and the last error was raised.
C13_Witness ==
  /\ gemini.outcome = "raised"
  /\ gemini.errors[1].what = "fetch"
  /\ gemini.errors[2].what = "status"
  /\ gemini.value = [attempt |-> 3, what |-> "noText"]

\* --------------------------------------------------- claims on routines

\* C14: the routine reward is granted in exactly the steps that take the stored
\* completion of today's date from false to true; a step that leaves it true,
\* or makes it false, grants nothing.
C14_RewardOnRisingEdge ==
  [][/\ routineRewards' \in {routineRewards, routineRewards + 1}
     /\ routineRewards' = routineRewards + 1
          <=> /\ routineDocs.exists /\ routineDocs'.exists
              /\ ~routineDocs.completedToday
              /\ routineDocs'.completedToday]_vars

\* C15: the routine reward is granted at most once for today's date.
C15_OncePerDate == routineRewards <= 1

\* --------------------------------------------------- claims on missions

\* Created 0, PendingApproval 1, Completed 2, Rewarded 3.
Stage(mission) ==
  IF mission.isStudentRewarded THEN 3
  ELSE IF mission.isCompleted THEN 2
  ELSE IF mission.isPendingApproval THEN 1
  ELSE 0

\* C16: a mission whose isStudentRewarded is true keeps its isCompleted,
\* isPendingApproval and isStudentRewarded flags in every later step, and no
\* step moves a mission backward along Created, PendingApproval, Completed,
\* Rewarded.
C16_RewardedIsTerminal ==
  [][\A m \in MissionIds :
       missions[m].exists /\ missions'[m].exists
         => /\ Stage(missions'[m]) >= Stage(missions[m])
            /\ missions[m].isStudentRewarded
                 => /\ missions'[m].isCompleted = missions[m].isCompleted
                    /\ missions'[m].isPendingApproval = missions[m].isPendingApproval
                    /\ missions'[m].isStudentRewarded]_vars

\* C17: when handleGenerateDailyMissions ends after adding its last mission,
\* every mission that was completed when the call began still exists, and
\* every mission the call adds has isCompleted, isPendingApproval and
\* isStudentRewarded false.
C17_KeepsCompletedMissions ==
  [][/\ (/\ handler.kind = "generate" /\ handler.pc = "addDoc"
         /\ handler'.kind = "idle"
         /\ missionsCreated' = missionsCreated + 1)
          => \A m \in handler.completedBefore : missions'[m].exists
     /\ \A m \in MissionIds :
          ~missions[m].exists /\ missions'[m].exists
            => /\ ~missions'[m].isCompleted
               /\ ~missions'[m].isPendingApproval
               /\ ~missions'[m].isStudentRewarded]_vars

\* The missions a handleAddRecommendedMissions call was given all exist, each
\* with isRecommended true and isCompleted, isPendingApproval and
\* isStudentRewarded false.
AllAdded(docs, created, list) ==
  \A i \in 1 .. Len(list) :
    LET d == docs[created + i]
    IN  /\ d.exists
        /\ d.type = list[i].type
        /\ "isRecommended" \in DOMAIN d /\ d.isRecommended
        /\ ~d.isCompleted /\ ~d.isPendingApproval /\ ~d.isStudentRewarded

\* C18: when a handleAddRecommendedMissions call ends, either every mission it
\* was given exists with isRecommended true and the three lifecycle flags
\* false and the analysis result has its recommendation list cleared, or no
\* mission was added and the analysis result is unchanged.
C18_AllOrNothing ==
  [][recommending.pc = "commit" /\ recommending'.pc = "idle"
       => \/ /\ AllAdded(missions', missionsCreated, recommending.missions)
             /\ analysisResults'.set /\ ~analysisResults'.recommended
          \/ /\ missions' = missions
             /\ analysisResults' = analysisResults]_vars

\* A call given two missions has added both.
C18_Witness ==
  /\ missionsCreated = 2
  /\ \A m \in {1, 2} :
       missions[m].exists /\ "isRecommended" \in DOMAIN missions[m]
  /\ recommending.pc = "idle"
  /\ analysisResults.set /\ ~analysisResults.recommended

\* A call was rejected: nothing was added and the list is still offered.
C18_WitnessRejected ==
  /\ failures = 1
  /\ missionsCreated = 0
  /\ recommending.pc = "idle"
  /\ analysisResults.set /\ analysisResults.recommended
  /\ Len(analysisResults.recommendedMissions) = 2

\* ------------------------------------------------- claims on settlement

\* The skill gain of a settled mission, by type and skill.
SkillGain(type, k) ==
  (IF k = "responsibility" THEN 5 ELSE 0)
    + (IF k = "literacy" /\ type \in {"reading", "writing"} THEN 10 ELSE 0)
    + (IF k = "numeracy" /\ type \in {"math", "problems"} THEN 10 ELSE 0)

\* Run r has called updateStudentProfile for mission m, the call has returned,
\* and the run is at its write of the mission's flag.
SettledBy(r, m) ==
  /\ runs[r].pc = "updateDoc"
  /\ Head(runs[r].todo).id = m
  /\ m \in runs[r].settled
  /\ usp[r].pc = "idle"

\* C19: the profile update a settlement issues for a mission adds 5 to
\* responsibility for every type, 10 to literacy for reading and writing, 10
\* to numeracy for math and problem solving, and nothing to any other skill;
\* the write that turns isStudentRewarded true comes from a run whose profile
\* update for that mission has been issued and has returned.
C19_SkillsByTypeThenFlag ==
  [][/\ \A r \in RunIds :
          runs'[r].pc = "usp"
            => LET type == Head(runs'[r].todo).type
                   c == usp'[r]
               IN  /\ \A k \in Skills : OrZero(c.updates.skills, k) = SkillGain(type, k)
                   /\ DOMAIN c.updates.skills \subseteq Skills
                   /\ c.currentData.exists
                        => \A k \in Skills :
                             c.updatedProfile.skills[k]
                               = OrZero(c.currentData.skills, k) + SkillGain(type, k)
     /\ \A m \in MissionIds :
          (/\ missions[m].exists /\ ~missions[m].isStudentRewarded
           /\ missions'[m].exists /\ missions'[m].isStudentRewarded)
            => \E r \in RunIds : SettledBy(r, m)]_vars

\* An inquiry mission has been settled and flagged: responsibility was raised
\* and no other skill.
C19_Witness ==
  /\ missionsCreated = 1
  /\ missions[1].type = "inquiry" /\ missions[1].isStudentRewarded
  /\ privateProfile.skills = [initialSkills EXCEPT !["responsibility"] = 5]

\* ----------------------------------------------------- claims on login

\* The pair is in the student table or in the teacher table.
InAccountTables(id, password) ==
  \/ id \in DOMAIN studentAccounts /\ studentAccounts[id] = password
  \/ id \in DOMAIN teacherAccounts /\ teacherAccounts[id] = password

\* C20: a login call whose pair of display name and code is in neither account
\* table comes back in the same step with a failure result that carries an
\* error message, writes neither the profile nor the mirror, and leaves the
\* user role unset and the loading flag false.
C20_InvalidLoginFails ==
  [][(/\ LoginScreenShown /\ session.pc = "idle"
      /\ userActions' = userActions + 1
      /\ session'.isAuthInitialized
      /\ ~InAccountTables(session'.inputID, session'.inputPassword))
       => /\ session'.result \in {"invalid", "notReady"}
          /\ session'.pc = "idle"
          /\ privateProfile' = privateProfile
          /\ publicProfile' = publicProfile
          /\ session'.userRole = "none"
          /\ ~session'.loading]_vars

\* A login with a name that is in no table was refused while the student's
\* documents of an earlier session exist.
C20_Witness ==
  /\ session.result = "invalid"
  /\ session.inputID = "nobody"
  /\ session.userRole = "none" /\ ~session.loading
  /\ privateProfile.exists /\ publicProfile.exists

\* --------------------------------------------------- claims on the journal

\* C21: a journal entry, once created, keeps its content, its timestamp and
\* its AI feedback in every later step, and no step removes an entry; the one
\* field of an existing entry a step may change is its questions.
C21_EntryImmutable ==
  [][/\ Len(growthJournal') >= Len(growthJournal)
     /\ \A i \in 1 .. Len(growthJournal) :
          /\ growthJournal'[i].content = growthJournal[i].content
          /\ growthJournal'[i].timestamp = growthJournal[i].timestamp
          /\ growthJournal'[i].aiFeedback = growthJournal[i].aiFeedback]_vars

\* An existing entry has had its questions attached.
C21_Witness ==
  /\ Len(growthJournal) >= 1
  /\ growthJournal[1].questions = questionsAsked
  /\ growthJournal[1].content = "entry" /\ growthJournal[1].timestamp = 1
  /\ growthJournal[1].aiFeedback \in {"text", "error"}

\* ------------------------------------------- claims on mission generation

\* The step ends a handleGenerateDailyMissions call that did not add all the
\* missions it was given: the generation call threw or returned nothing, or a
\* remote read or write was rejected.
GenerationGivesUp ==
  /\ handler.kind = "generate" /\ handler'.kind = "idle"
  /\ session' = session
  /\ ~(handler.pc = "addDoc" /\ missionsCreated' = missionsCreated + 1)

\* C22: when handleGenerateDailyMissions ends without having added its
\* missions, the call has come back (nothing is raised, the generating flag is
\* reset) and every mission of the student that existed when the call began
\* still exists.
C22_FailureLeavesMissions ==
  [][GenerationGivesUp
       => /\ handler' = IdleHandler
          /\ \A m \in handler.existedBefore : missions'[m].exists]_vars

\* ------------------------------------------------ claims on concurrency

\* C23: when no updateStudentProfile call is in flight and no remote
\* operation has failed, the stored xp, gold and every skill score equal the
\* initial value, which is zero, plus the sum of the updates of all the calls
\* made.
C23_NoLostReward ==
  (failures = 0 /\ \A t \in Tasks : usp[t].pc = "idle")
    => /\ privateProfile.xp = granted.xp
       /\ privateProfile.gold = granted.gold
       /\ \A k \in Skills : privateProfile.skills[k] = granted.skills[k]

\* ---------------------------------------------------- claims on progress

\* C24: a mission that is completed and not yet rewarded is eventually marked
\* isStudentRewarded, unless it stops being completed or is deleted, while
\* the student's dashboard stays mounted.
C24_EventuallyRewarded ==
  \A m \in MissionIds :
    (missions[m].exists /\ missions[m].isCompleted /\ ~missions[m].isStudentRewarded)
      ~> \/ ~StudentMounted
         \/ ~missions[m].exists
         \/ ~missions[m].isCompleted
         \/ missions[m].isStudentRewarded

\* ----------------------------------------------- claims on mission flags

\* C25: no mission document has isCompleted and isPendingApproval both true.
C25_NotCompletedAndPending ==
  \A m \in MissionIds :
    missions[m].exists => ~(missions[m].isCompleted /\ missions[m].isPendingApproval)

\* ------------------------------------------------------ claims on the quiz

\* The texts that are equal to the correct answer once blanks at both ends are
\* dropped and capitals are folded.
EqualsCorrect(answer) == answer \in {<<"a">>, <<"A">>, <<" ", "a", " ">>}

\* C26: the reward of a question is granted only by the submission of an
\* answer equal to the correct answer after trimming and case folding, and no
\* question is rewarded more than once.
C26_QuizRewardOnce ==
  /\ \A q \in QuestionIds : quizRewards[q] <= 1
  /\ handler.kind = "answer" => EqualsCorrect(handler.answer)

\* ---------------------------------------------------- claims on logout

\* The session has no signed-in user and the provider has finished its start:
\* the state a successful logout leaves.
SignedOut == ~session.currentUser /\ session.isAuthInitialized /\ session.pc = "idle"

\* C27: a successful logout leaves the session without a signed-in user and
\* with the user role unset; from then on, unless the page is loaded again,
\* the session stays so, every login call comes back with the failure of a
\* provider that is not ready, and no step writes the profile or the mirror.
C27_LogoutIsFinal ==
  [][/\ (session.pc = "signOut" /\ session'.pc = "idle" /\ failures' = failures)
          => ~session'.currentUser /\ session'.userRole = "none"
     /\ (SignedOut /\ session'.isAuthInitialized)
          => /\ ~session'.currentUser
             /\ session'.userRole = "none"
             /\ session'.pc = "idle"
             /\ privateProfile' = privateProfile /\ publicProfile' = publicProfile
             /\ userActions' # userActions => session'.result = "notReady"]_vars

\* After the student logged in and out, a login with the student's own name
\* and code was refused.
C27_Witness ==
  /\ SignedOut
  /\ failures = 0
  /\ privateProfile.exists
  /\ session.result = "notReady"
  /\ session.inputID = StudentName /\ session.inputPassword = "1024"


====
